---- MODULE Spec2Model ----
(***************************************************************************)
(* MasterBike backend, src/server.js: the purchase route POST /api/purchase *)
(* (stock deduction and dispatch record inside one MongoDB transaction) and *)
(* the inventory routes POST/PUT/DELETE /api/inventory.                     *)
(*                                                                         *)
(* Each request is one run of the async handler; a step of the model is    *)
(* the code between two awaits, together with the store operation whose    *)
(* result the await delivers.  The store is MongoDB as the handler uses    *)
(* it: writes made with { session } stay private to the transaction until  *)
(* commitTransaction, reads made with .session(session) see the snapshot   *)
(* taken at the transaction's first operation overlaid with its own        *)
(* writes, and a transactional write to a document that another            *)
(* transaction has written, or that was changed after the snapshot, fails  *)
(* with a write conflict.                                                  *)
(***************************************************************************)
EXTENDS Integers, Sequences, FiniteSets, TLC

\* ---------------------------------------------------------------- bounds
\* longest cart the first client submits
MaxCartLen == 2
\* largest quantity on a cart line
MaxQty == 2
\* number of inventory-management requests (POST/PUT/DELETE) that change the
\* inventory in a run
MaxAdminOps == 1
\* number of store operations that fail for reasons of the store's own
MaxFaults == 1

\* ---------------------------------------------------------------- values
Undefined == "undefined"

\* _id values of InventoryItem documents; "C" is not in the inventory at start
ItemIds == {"A", "B", "C"}

\* the value findById resolves with when no document matches (null)
Null == [exists |-> FALSE, name |-> "", price |-> 0, stock |-> 0]

\* the two concurrent callers of POST /api/purchase
Reqs == {"r1", "r2"}

\* a cart line that names its item under the key _id, at the price the shop
\* front shows for it
IdLine(i, q) ==
    [_id |-> i, itemId |-> Undefined, quantity |-> q, price |-> IF i = "A" THEN 100 ELSE 50]

\* a cart line that names its item under the key itemId
ItemIdLine(i, q) ==
    [_id |-> Undefined, itemId |-> i, quantity |-> q, price |-> IF i = "A" THEN 100 ELSE 50]

\* the lines of ordinary carts: item B in every positive quantity, item A in
\* the largest one
CoreLines == { IdLine("B", q) : q \in 1 .. MaxQty } \cup { IdLine("A", MaxQty) }

\* carts with a line out of the ordinary: an item that is not in the
\* inventory, a quantity of zero or below, an item named under itemId
OddCarts ==
    { <<IdLine("C", 1)>>, <<IdLine("A", 1), IdLine("C", 1)>>, <<IdLine("C", 1), IdLine("A", 1)>>,
      <<IdLine("A", 0)>>, <<IdLine("A", -1)>>, <<IdLine("B", 1), IdLine("A", -1)>>,
      <<ItemIdLine("A", 2), ItemIdLine("B", 1)>>, <<IdLine("A", 2), ItemIdLine("B", 1)>> }

SeqsUpTo(S, n) == UNION { [1 .. k -> S] : k \in 1 .. n }

GoodDetails == [deliveryDate |-> "2025-07-01", customerName |-> "Ana", customerEmail |-> "ana@mail.cl"]

MkBody(has, cart, d) ==
    [hasCart |-> has, cartItems |-> cart, deliveryDate |-> d.deliveryDate,
     customerName |-> d.customerName, customerEmail |-> d.customerEmail]

\* request bodies that pass the precheck of lines 502-507
GoodBodies(carts) == { MkBody(TRUE, c, GoodDetails) : c \in carts }

\* request bodies with the cart or one of the details missing or empty
BadBodies ==
    { MkBody(FALSE, <<>>, GoodDetails), MkBody(TRUE, <<>>, GoodDetails) }
    \cup { MkBody(TRUE, <<IdLine("A", 1)>>, [GoodDetails EXCEPT ![f] = v]) :
             f \in {"deliveryDate", "customerName", "customerEmail"},
             v \in {Undefined, ""} }

\* what each caller may send: r1 any cart, r2 an ordinary cart of one line
Bodies(r) ==
    IF r = "r1"
    THEN GoodBodies(SeqsUpTo(CoreLines, MaxCartLen) \cup OddCarts) \cup BadBodies
    ELSE GoodBodies(SeqsUpTo(CoreLines, 1))

NoBody == MkBody(FALSE, <<>>, [deliveryDate |-> Undefined, customerName |-> Undefined, customerEmail |-> Undefined])

\* ---------------------------------------------------------------- errors
NoErr == [kind |-> "none", id |-> "", name |-> "", stock |-> 0, quantity |-> 0]
Err(k) == [NoErr EXCEPT !.kind = k]

\* line 525: `Producto con ID ${itemId} no encontrado en el inventario.`
NotFoundError(itemId) == [Err("NotFound") EXCEPT !.id = itemId]

\* line 530: `Stock insuficiente para el producto: ${name}. Disponible: ${stock}, Solicitado: ${quantity}`
InsufficientStockError(item, quantity) ==
    [Err("InsufficientStock") EXCEPT !.name = item.name, !.stock = item.stock, !.quantity = quantity]

\* ---------------------------------------------------------------- state
VARIABLES
    inventory,            \* committed InventoryItem collection: ItemIds -> document
    dispatches,           \* committed DispatchRecord collection, in insertion order
    pc,                   \* where each purchase handler stands
    body,                 \* req.body of each purchase request
    session,              \* the handler's `session`: "none" | "open" | "ended"
    txn,                  \* the driver's transaction state of that session
    snap,                 \* the transaction's read snapshot of the inventory
    hasSnap,              \* whether the transaction has made its first operation
    txWrites,             \* stock values written with { session }, not yet committed
    stale,                \* documents changed by others since the snapshot
    idx,                  \* position of the for-loop in cartItems
    inventoryItem,        \* the document loaded by findById in this iteration
    dispatchItems,        \* the handler's dispatchItems
    totalPurchaseAmount,  \* the handler's totalPurchaseAmount
    reads,                \* the ids passed to findById, in call order
    err,                  \* the error caught at line 566
    responses,            \* what res.status(..).json(..) has sent
    adminOps,             \* inventory changes made by POST/PUT/DELETE /api/inventory so far
    faults,               \* store operations that have failed so far
    inventory0            \* the inventory at start

vars == <<inventory, dispatches, pc, body, session, txn, snap, hasSnap, txWrites, stale,
          idx, inventoryItem, dispatchItems, totalPurchaseAmount, reads, err, responses,
          adminOps, faults, inventory0>>

store == <<inventory, dispatches>>
locals == <<idx, inventoryItem, dispatchItems, totalPurchaseAmount, reads>>
txvars == <<session, txn, snap, hasSnap, txWrites, stale>>

NoWrites == [i \in ItemIds |-> -1]

Item(n, p, s) == [exists |-> TRUE, name |-> n, price |-> p, stock |-> s]

Init ==
    /\ inventory = [i \in ItemIds |->
                      CASE i = "A" -> Item("Bici Urbana", 100, 5)
                        [] i = "B" -> Item("Cadena", 60, 3)
                        [] OTHER -> Null]
    /\ inventory0 = inventory
    /\ dispatches = <<>>
    /\ pc = [r \in Reqs |-> "idle"]
    /\ body = [r \in Reqs |-> NoBody]
    /\ session = [r \in Reqs |-> "none"]
    /\ txn = [r \in Reqs |-> "NO_TRANSACTION"]
    /\ snap = [r \in Reqs |-> [i \in ItemIds |-> Null]]
    /\ hasSnap = [r \in Reqs |-> FALSE]
    /\ txWrites = [r \in Reqs |-> NoWrites]
    /\ stale = [r \in Reqs |-> {}]
    /\ idx = [r \in Reqs |-> 0]
    /\ inventoryItem = [r \in Reqs |-> Null]
    /\ dispatchItems = [r \in Reqs |-> <<>>]
    /\ totalPurchaseAmount = [r \in Reqs |-> 0]
    /\ reads = [r \in Reqs |-> <<>>]
    /\ err = [r \in Reqs |-> NoErr]
    /\ responses = [r \in Reqs |-> <<>>]
    /\ adminOps = 0
    /\ faults = 0


\* ---------------------------------------------------------------- schemas
\* mutant: the schema puts no minimum on stock
ValidItemNoMin(doc) == doc.name # ""

\* itemSchema: name and price required, stock required with min 0
ValidItem(doc) == doc.name # "" /\ doc.stock >= 0

\* mutant: the schema puts no minimum on the quantity of an entry
ValidDispatchRecordNoMin(rec) ==
    /\ rec.deliveryDate \notin {Undefined, ""}
    /\ rec.customerDetails.name # "" /\ rec.customerDetails.email # ""
    /\ \A k \in 1 .. Len(rec.items) : rec.items[k].name # ""

\* dispatchRecordSchema: every entry needs a name and a quantity of at least 1
ValidDispatchRecord(rec) ==
    /\ rec.deliveryDate \notin {Undefined, ""}
    /\ rec.customerDetails.name # "" /\ rec.customerDetails.email # ""
    /\ \A k \in 1 .. Len(rec.items) : rec.items[k].name # "" /\ rec.items[k].quantity >= 1

\* ---------------------------------------------------------------- the store
Active(r) == pc[r] \in {"find", "save", "saveDispatch", "commit"}

\* mutant: the transaction reads its snapshot and not its own writes
ViewSnapshotOnly(r, sn, id) == IF id \notin ItemIds THEN Null ELSE sn[id]

\* a document as the transaction of r sees it: its snapshot under its own writes
View(r, sn, id) ==
    IF id \notin ItemIds THEN Null
    ELSE IF txWrites[r][id] # -1 THEN [sn[id] EXCEPT !.stock = txWrites[r][id]]
    ELSE sn[id]

\* some open transaction holds an uncommitted write to the document
Locked(id) == \E o \in Reqs : txWrites[o][id] # -1

\* a transactional write of r to the document must fail
Conflict(r, id) == id \in stale[r] \/ \E o \in Reqs \ {r} : txWrites[o][id] # -1

\* the open snapshots that a committed change of the documents `ids` outdates
Outdate(ids, by) ==
    [o \in Reqs |-> IF o # by /\ hasSnap[o] /\ Active(o) THEN stale[o] \cup ids ELSE stale[o]]

\* ---------------------------------------------------------------- POST /api/purchase
Falsy(v) == v \in {Undefined, ""}

Respond(r, status, cause) ==
    responses' = [responses EXCEPT ![r] = Append(@, [status |-> status, cause |-> cause])]

\* a store operation fails for reasons of the store's own (connectivity, ...)
StoreFault(r) ==
    /\ faults < MaxFaults
    /\ faults' = faults + 1
    /\ err' = [err EXCEPT ![r] = Err("StoreError")]

\* session.endSession(): the session is returned and its snapshot released
EndSession(r) ==
    /\ session' = [session EXCEPT ![r] = "ended"]
    /\ txWrites' = [txWrites EXCEPT ![r] = NoWrites]
    /\ snap' = [snap EXCEPT ![r] = [i \in ItemIds |-> Null]]
    /\ hasSnap' = [hasSnap EXCEPT ![r] = FALSE]
    /\ inventoryItem' = [inventoryItem EXCEPT ![r] = Null]

\* mutant: the precheck looks at the cart alone
PrecheckCartOnly(b) ==
    IF ~b.hasCart \/ Len(b.cartItems) = 0 THEN "EmptyCart" ELSE "ok"

\* the precheck of lines 502-507
Precheck(b) ==
    IF ~b.hasCart \/ Len(b.cartItems) = 0 THEN "EmptyCart"
    ELSE IF Falsy(b.deliveryDate) \/ Falsy(b.customerName) \/ Falsy(b.customerEmail)
         THEN "MissingDetails"
    ELSE "ok"

\* mutant: a request whose body equals that of a purchase already committed is
\* taken for a replay and answered 200 without being processed
ReceivePurchaseDedup(r) ==
    /\ pc[r] = "idle"
    /\ \E b \in Bodies(r) :
         /\ body' = [body EXCEPT ![r] = b]
         /\ IF Precheck(b) # "ok"
            THEN /\ Respond(r, 400, Err(Precheck(b)))
                 /\ pc' = [pc EXCEPT ![r] = "done"]
            ELSE IF \E o \in Reqs \ {r} :
                       body[o] = b /\ pc[o] = "done" /\ responses[o] = <<[status |-> 200, cause |-> NoErr]>>
            THEN /\ Respond(r, 200, NoErr)
                 /\ pc' = [pc EXCEPT ![r] = "done"]
            ELSE /\ pc' = [pc EXCEPT ![r] = "startSession"]
                 /\ UNCHANGED responses
    /\ UNCHANGED <<store, txvars, locals, err, adminOps, faults, inventory0>>

\* lines 499-512: destructure the body, precheck, call mongoose.startSession()
ReceivePurchase(r) ==
    /\ pc[r] = "idle"
    /\ \E b \in Bodies(r) :
         /\ body' = [body EXCEPT ![r] = b]
         /\ IF Precheck(b) # "ok"
            THEN /\ Respond(r, 400, Err(Precheck(b)))
                 /\ pc' = [pc EXCEPT ![r] = "done"]
            ELSE /\ pc' = [pc EXCEPT ![r] = "startSession"]
                 /\ UNCHANGED responses
    /\ UNCHANGED <<store, txvars, locals, err, adminOps, faults, inventory0>>

\* lines 512-518: the session arrives, startTransaction, enter the loop; or
\* startSession rejects and the catch block answers with no session to abort
StartSession(r) ==
    /\ pc[r] = "startSession"
    /\ \/ /\ session' = [session EXCEPT ![r] = "open"]
          /\ txn' = [txn EXCEPT ![r] = "STARTING_TRANSACTION"]
          /\ idx' = [idx EXCEPT ![r] = 1]
          /\ pc' = [pc EXCEPT ![r] = "find"]
          /\ UNCHANGED <<err, faults, responses>>
       \/ /\ StoreFault(r)
          /\ Respond(r, 500, Err("StoreError"))
          /\ pc' = [pc EXCEPT ![r] = "done"]
          /\ UNCHANGED <<session, txn, idx>>
    /\ UNCHANGED <<store, body, snap, hasSnap, txWrites, stale, inventoryItem,
                   dispatchItems, totalPurchaseAmount, reads, adminOps, inventory0>>

\* line 519: const { _id: itemId, quantity, price } = item
LineItemId(line) == line._id

\* mutant: the stock check also refuses a purchase of exactly the stock left
InsufficientStockOffByOne(item, quantity) == item.stock <= quantity

\* line 529: the stock check
InsufficientStock(item, quantity) == item.stock < quantity

\* lines 519-534: findById(itemId).session(session) resolves; not found and
\* insufficient stock throw, otherwise the loaded document's stock is reduced
\* and save is called
FindItem(r) ==
    /\ pc[r] = "find"
    /\ LET line == body[r].cartItems[idx[r]]
           itemId == LineItemId(line)
           sn == IF hasSnap[r] THEN snap[r] ELSE inventory
           doc == View(r, sn, itemId)
       IN  /\ reads' = [reads EXCEPT ![r] = Append(@, itemId)]
           /\ txn' = [txn EXCEPT ![r] = "TRANSACTION_IN_PROGRESS"]
           /\ \/ /\ StoreFault(r)
                 /\ pc' = [pc EXCEPT ![r] = "abort"]
                 /\ UNCHANGED <<snap, hasSnap, inventoryItem>>
              \/ /\ snap' = [snap EXCEPT ![r] = sn]
                 /\ hasSnap' = [hasSnap EXCEPT ![r] = TRUE]
                 /\ faults' = faults
                 /\ IF ~doc.exists
                    THEN /\ err' = [err EXCEPT ![r] = NotFoundError(itemId)]
                         /\ pc' = [pc EXCEPT ![r] = "abort"]
                         /\ UNCHANGED inventoryItem
                    ELSE IF InsufficientStock(doc, line.quantity)
                    THEN /\ err' = [err EXCEPT ![r] = InsufficientStockError(doc, line.quantity)]
                         /\ pc' = [pc EXCEPT ![r] = "abort"]
                         /\ UNCHANGED inventoryItem
                    ELSE /\ inventoryItem' =
                              [inventoryItem EXCEPT ![r] = [doc EXCEPT !.stock = @ - line.quantity]]
                         /\ pc' = [pc EXCEPT ![r] = "save"]
                         /\ UNCHANGED err
    /\ UNCHANGED <<store, body, session, txWrites, stale, idx, dispatchItems,
                   totalPurchaseAmount, responses, adminOps, inventory0>>

\* mutant: the entry records the item's catalog price, not the submitted one
DispatchEntryCatalogPrice(id, item, line) ==
    [itemId |-> id, name |-> item.name, quantity |-> line.quantity, priceAtPurchase |-> item.price]

\* lines 538-543: the entry pushed onto dispatchItems
DispatchEntry(id, item, line) ==
    [itemId |-> id, name |-> item.name, quantity |-> line.quantity, priceAtPurchase |-> line.price]

\* mutant: the total adds the unit price of each line, not price x quantity
LineAmountPriceOnly(line) == line.price

\* line 544: totalPurchaseAmount += price * quantity
LineAmount(line) == line.price * line.quantity

\* mutant: inventoryItem.save() without { session }: the update goes straight
\* to the collection, outside the transaction
SaveItemNoSession(r) ==
    /\ pc[r] = "save"
    /\ LET line == body[r].cartItems[idx[r]]
           id == LineItemId(line)
       IN  \/ /\ \/ /\ ~ValidItem(inventoryItem[r])
                    /\ err' = [err EXCEPT ![r] = Err("ValidationError")]
                    /\ faults' = faults
                 \/ StoreFault(r)
              /\ pc' = [pc EXCEPT ![r] = "abort"]
              /\ UNCHANGED <<inventory, stale, dispatchItems, totalPurchaseAmount, idx>>
           \/ /\ ValidItem(inventoryItem[r])
              /\ inventory' = [inventory EXCEPT ![id].stock = inventoryItem[r].stock]
              /\ stale' = Outdate({id}, r)
              /\ dispatchItems' =
                   [dispatchItems EXCEPT ![r] = Append(@, DispatchEntry(id, inventoryItem[r], line))]
              /\ totalPurchaseAmount' = [totalPurchaseAmount EXCEPT ![r] = @ + LineAmount(line)]
              /\ IF idx[r] < Len(body[r].cartItems)
                 THEN idx' = [idx EXCEPT ![r] = @ + 1] /\ pc' = [pc EXCEPT ![r] = "find"]
                 ELSE idx' = idx /\ pc' = [pc EXCEPT ![r] = "saveDispatch"]
              /\ UNCHANGED <<err, faults>>
    /\ UNCHANGED <<dispatches, body, session, txn, snap, hasSnap, txWrites, inventoryItem, reads,
                   responses, adminOps, inventory0>>

\* lines 535-545: inventoryItem.save({ session }) resolves or rejects (the
\* schema validation, a write conflict, a store failure); on success push the
\* entry, add to the total and go round the loop.  Mongoose sends the update
\* only when the stock was modified.
SaveItem(r) ==
    /\ pc[r] = "save"
    /\ LET line == body[r].cartItems[idx[r]]
           id == LineItemId(line)
           modified == inventoryItem[r].stock # View(r, snap[r], id).stock
       IN  \/ /\ \/ /\ ~ValidItem(inventoryItem[r])
                    /\ err' = [err EXCEPT ![r] = Err("ValidationError")]
                    /\ faults' = faults
                 \/ /\ modified /\ Conflict(r, id)
                    /\ err' = [err EXCEPT ![r] = Err("WriteConflict")]
                    /\ faults' = faults
                 \/ StoreFault(r)
              /\ pc' = [pc EXCEPT ![r] = "abort"]
              /\ UNCHANGED <<txWrites, dispatchItems, totalPurchaseAmount, idx>>
           \/ /\ ValidItem(inventoryItem[r])
              /\ ~(modified /\ Conflict(r, id))
              /\ txWrites' = IF modified
                             THEN [txWrites EXCEPT ![r][id] = inventoryItem[r].stock]
                             ELSE txWrites
              /\ dispatchItems' =
                   [dispatchItems EXCEPT ![r] = Append(@, DispatchEntry(id, inventoryItem[r], line))]
              /\ totalPurchaseAmount' = [totalPurchaseAmount EXCEPT ![r] = @ + LineAmount(line)]
              /\ IF idx[r] < Len(body[r].cartItems)
                 THEN idx' = [idx EXCEPT ![r] = @ + 1] /\ pc' = [pc EXCEPT ![r] = "find"]
                 ELSE idx' = idx /\ pc' = [pc EXCEPT ![r] = "saveDispatch"]
              /\ UNCHANGED <<err, faults>>
    /\ UNCHANGED <<store, body, session, txn, snap, hasSnap, stale, inventoryItem, reads,
                   responses, adminOps, inventory0>>

\* lines 548-557: new DispatchRecord({...})
NewDispatchRecord(r) ==
    [items |-> dispatchItems[r],
     totalAmount |-> totalPurchaseAmount[r],
     deliveryDate |-> body[r].deliveryDate,
     customerDetails |-> [name |-> body[r].customerName, email |-> body[r].customerEmail],
     status |-> "Pendiente"]

\* line 558: newDispatchRecord.save({ session }) resolves or rejects
SaveDispatchRecord(r) ==
    /\ pc[r] = "saveDispatch"
    /\ \/ /\ \/ /\ ~ValidDispatchRecord(NewDispatchRecord(r))
                /\ err' = [err EXCEPT ![r] = Err("ValidationError")]
                /\ faults' = faults
             \/ StoreFault(r)
          /\ pc' = [pc EXCEPT ![r] = "abort"]
       \/ /\ ValidDispatchRecord(NewDispatchRecord(r))
          /\ pc' = [pc EXCEPT ![r] = "commit"]
          /\ UNCHANGED <<err, faults>>
    /\ UNCHANGED <<store, body, txvars, locals, responses, adminOps, inventory0>>

\* the inventory after the transaction's writes are made durable
Committed(r) ==
    [i \in ItemIds |->
        IF txWrites[r][i] # -1 THEN [inventory[i] EXCEPT !.stock = txWrites[r][i]]
        ELSE inventory[i]]

\* the record as inserted, with its generated _id
Inserted(rec) ==
    [_id |-> Len(dispatches) + 1, items |-> rec.items, totalAmount |-> rec.totalAmount,
     deliveryDate |-> rec.deliveryDate, customerDetails |-> rec.customerDetails,
     status |-> rec.status]

\* lines 561-564: commitTransaction resolves, endSession, answer 200; or it
\* rejects (the driver leaves the transaction in its committed state and the
\* server drops the writes) and control passes to the catch block
CommitTransaction(r) ==
    /\ pc[r] = "commit"
    /\ txn' = [txn EXCEPT ![r] = "TRANSACTION_COMMITTED"]
    /\ \/ /\ inventory' = Committed(r)
          /\ dispatches' = Append(dispatches, Inserted(NewDispatchRecord(r)))
          /\ stale' = [Outdate({i \in ItemIds : txWrites[r][i] # -1}, r) EXCEPT ![r] = {}]
          /\ EndSession(r)
          /\ Respond(r, 200, NoErr)
          /\ pc' = [pc EXCEPT ![r] = "done"]
          /\ UNCHANGED <<err, faults>>
       \/ /\ StoreFault(r)
          /\ txWrites' = [txWrites EXCEPT ![r] = NoWrites]
          /\ pc' = [pc EXCEPT ![r] = "abort"]
          /\ UNCHANGED <<store, stale, session, snap, hasSnap, inventoryItem, responses>>
    /\ UNCHANGED <<body, idx, dispatchItems, totalPurchaseAmount, reads, adminOps, inventory0>>

\* mutant: the catch block commits the transaction where it should abort it
AbortTransactionCommits(r) ==
    /\ pc[r] = "abort"
    /\ txn' = [txn EXCEPT ![r] = "TRANSACTION_COMMITTED"]
    /\ inventory' =
         [i \in ItemIds |->
            IF txWrites[r][i] # -1 THEN [inventory[i] EXCEPT !.stock = txWrites[r][i]]
            ELSE inventory[i]]
    /\ EndSession(r)
    /\ stale' = [stale EXCEPT ![r] = {}]
    /\ Respond(r, 500, err[r])
    /\ pc' = [pc EXCEPT ![r] = "done"]
    /\ UNCHANGED <<dispatches, body, idx, dispatchItems, totalPurchaseAmount, reads, err,
                   adminOps, faults, inventory0>>

\* lines 566-574: the catch block with a session: abortTransaction (which the
\* driver refuses once commitTransaction has been called, so that the handler's
\* promise rejects at line 569), endSession, answer 500 with the cause
AbortTransaction(r) ==
    /\ pc[r] = "abort"
    /\ IF txn[r] = "TRANSACTION_COMMITTED"
       THEN /\ pc' = [pc EXCEPT ![r] = "rejected"]
            /\ UNCHANGED <<txn, txWrites, session, snap, hasSnap, stale, inventoryItem, responses>>
       ELSE /\ txn' = [txn EXCEPT ![r] = "TRANSACTION_ABORTED"]
            /\ EndSession(r)
            /\ stale' = [stale EXCEPT ![r] = {}]
            /\ Respond(r, 500, err[r])
            /\ pc' = [pc EXCEPT ![r] = "done"]
    /\ UNCHANGED <<store, body, idx, dispatchItems, totalPurchaseAmount, reads, err,
                   adminOps, faults, inventory0>>

\* ---------------------------------------------------------------- /api/inventory
NewItems == { [exists |-> TRUE, name |-> "Casco", price |-> 80, stock |-> s] : s \in {-1, 1} }

\* bodies of PUT /api/inventory/:id
PutEdits == { [stock |-> -1], [name |-> "Cadena KMC", price |-> 120, stock |-> 0] }

\* line 379: Object.assign(item, req.body)
Assign(doc, edit) == [f \in DOMAIN doc |-> IF f \in DOMAIN edit THEN edit[f] ELSE doc[f]]

purchaseVars == <<dispatches, pc, body, session, txn, snap, hasSnap, txWrites, locals, err,
                  responses, faults, inventory0>>

\* lines 362-370: new InventoryItem(req.body).save(); 400 when the validation
\* fails or the _id is taken, and nothing is stored
PostInventory(id, doc) ==
    /\ adminOps < MaxAdminOps
    /\ IF ValidItem(doc) /\ ~inventory[id].exists
       THEN /\ inventory' = [inventory EXCEPT ![id] = doc]
            /\ adminOps' = adminOps + 1
       ELSE UNCHANGED <<inventory, adminOps>>
    /\ UNCHANGED <<purchaseVars, stale>>

\* lines 373-385: findById, Object.assign, save; 404 when absent, 400 when the
\* validation fails; the update waits while a transaction holds the document
PutInventory(id, edit) ==
    /\ adminOps < MaxAdminOps
    /\ ~Locked(id)
    /\ IF inventory[id].exists /\ ValidItem(Assign(inventory[id], edit))
          /\ Assign(inventory[id], edit) # inventory[id]
       THEN /\ inventory' = [inventory EXCEPT ![id] = Assign(@, edit)]
            /\ stale' = Outdate({id}, "admin")
            /\ adminOps' = adminOps + 1
       ELSE UNCHANGED <<inventory, stale, adminOps>>
    /\ UNCHANGED purchaseVars

\* lines 388-398: findByIdAndDelete; 404 when absent
DeleteInventory(id) ==
    /\ adminOps < MaxAdminOps
    /\ ~Locked(id)
    /\ IF inventory[id].exists
       THEN /\ inventory' = [inventory EXCEPT ![id] = Null]
            /\ stale' = Outdate({id}, "admin")
            /\ adminOps' = adminOps + 1
       ELSE UNCHANGED <<inventory, stale, adminOps>>
    /\ UNCHANGED purchaseVars

\* ---------------------------------------------------------------- specification
Next ==
    \/ \E r \in Reqs : ReceivePurchase(r)
    \/ \E r \in Reqs : StartSession(r)
    \/ \E r \in Reqs : FindItem(r)
    \/ \E r \in Reqs : SaveItem(r)
    \/ \E r \in Reqs : SaveDispatchRecord(r)
    \/ \E r \in Reqs : CommitTransaction(r)
    \/ \E r \in Reqs : AbortTransaction(r)
    \/ \E doc \in NewItems : PostInventory("C", doc)
    \/ \E edit \in PutEdits : PutInventory("B", edit)
    \/ DeleteInventory("B")

Spec == Init /\ [][Next]_vars


\* ---------------------------------------------------------------- vocabulary of the claims
Cart(r) == body[r].cartItems

\* the quantity the first n lines of a cart request of item i
QtyPrefix(cart, i, n) ==
    LET f[k \in 0 .. n] ==
          IF k = 0 THEN 0
          ELSE f[k - 1] + (IF cart[k]._id = i THEN cart[k].quantity ELSE 0)
    IN  f[n]

QtyFor(cart, i) == QtyPrefix(cart, i, Len(cart))

\* the sum of quantity x submitted unit price over the lines of a cart
CartTotal(cart) ==
    LET f[k \in 0 .. Len(cart)] ==
          IF k = 0 THEN 0 ELSE f[k - 1] + cart[k].quantity * cart[k].price
    IN  f[Len(cart)]

LineFailure(e) == e.kind \in {"NotFound", "InsufficientStock"}

Answered(r, status) ==
    pc[r] = "done" /\ Len(responses[r]) = 1 /\ responses[r][1].status = status

\* the request's transaction was committed and the caller told so
Ok200(r) == Answered(r, 200)

\* the step is the commit of r's transaction
Commits(r) == pc[r] = "commit" /\ pc'[r] = "done"

\* r is the only request the server has seen, and nobody edited the inventory
Solo(r) == adminOps = 0 /\ \A o \in Reqs \ {r} : pc[o] = "idle"

\* ---------------------------------------------------------------- C1
\* C1: a purchase whose cart holds a failing line (item not found, or stock
\* below the requested quantity) leaves no trace: a request writes the
\* committed inventory and dispatch records in no step but the commit of its
\* transaction, a request that met a failing line never commits and is
\* answered 500, and when it ran alone the inventory and the dispatch records
\* are, once it is done, what they were before it.
C1_AllOrNothing ==
    /\ [][\A r \in Reqs : (pc'[r] # pc[r] /\ ~Commits(r)) => UNCHANGED store]_vars
    /\ [](\A r \in Reqs : LineFailure(err[r]) =>
             /\ pc[r] \in {"abort", "done"}
             /\ pc[r] = "done" => Answered(r, 500)
             /\ (pc[r] = "done" /\ Solo(r)) => (inventory = inventory0 /\ dispatches = <<>>))

\* a two-line cart whose first line was decremented inside the transaction and
\* whose second line failed has been answered, alone on the server
C1_Witness ==
    /\ Solo("r1") /\ pc["r1"] = "done"
    /\ LineFailure(err["r1"])
    /\ idx["r1"] = 2 /\ Len(dispatchItems["r1"]) = 1
    /\ dispatchItems["r1"][1].quantity >= 1

\* ---------------------------------------------------------------- C2
\* C2: when a purchase commits, every item's stock drops by the quantity the
\* cart requests of it (summed over the lines that name it) and nothing else
\* of the item changes; exactly one dispatch record is added, with one entry
\* per cart line in cart order, totalAmount the sum of quantity x submitted
\* price over the lines, and status 'Pendiente'; the caller is answered 200.
C2_SuccessPostcondition ==
    [][\A r \in Reqs : Commits(r) =>
          LET cart == Cart(r)
              rec == dispatches'[Len(dispatches')]
          IN  /\ \A i \in ItemIds :
                    inventory'[i] = [inventory[i] EXCEPT !.stock = @ - QtyFor(cart, i)]
              /\ \A k \in 1 .. Len(cart) :
                    cart[k]._id \in ItemIds /\ inventory[cart[k]._id].exists /\ cart[k].quantity >= 1
              /\ Len(dispatches') = Len(dispatches) + 1
              /\ SubSeq(dispatches', 1, Len(dispatches)) = dispatches
              /\ Len(rec.items) = Len(cart)
              /\ \A k \in 1 .. Len(cart) :
                    rec.items[k].itemId = cart[k]._id /\ rec.items[k].quantity = cart[k].quantity
              /\ rec.totalAmount = CartTotal(cart)
              /\ rec.status = "Pendiente"
              /\ Ok200(r)']_vars

\* a two-line purchase of two different items has committed
C2_Witness ==
    /\ Ok200("r1") /\ Len(Cart("r1")) = 2
    /\ Cart("r1")[1]._id # Cart("r1")[2]._id
    /\ Len(dispatches) >= 1


\* ---------------------------------------------------------------- C3
RECURSIVE SoldBy(_, _)
\* the quantity of item i bought by the requests of S that committed
SoldBy(S, i) ==
    IF S = {} THEN 0
    ELSE LET r == CHOOSE x \in S : TRUE
         IN  (IF Ok200(r) THEN QtyFor(Cart(r), i) ELSE 0) + SoldBy(S \ {r}, i)

\* C3: whatever the interleaving of the purchase requests, while nobody edits
\* the inventory every item's committed stock is its stock at start minus the
\* quantities of exactly the purchases that committed, and it is never
\* negative; so purchases that together ask for more than the stock never all
\* commit.
C3_NoOverselling ==
    adminOps = 0 =>
        \A i \in ItemIds :
            /\ inventory[i].stock = inventory0[i].stock - SoldBy(Reqs, i)
            /\ inventory[i].stock >= 0
            /\ (\A r \in Reqs : Ok200(r)) => SoldBy(Reqs, i) <= inventory0[i].stock

\* two overlapping purchases of the same item asked together for more than its
\* stock; one committed and the other was refused by the store
C3_Witness ==
    /\ adminOps = 0
    /\ Ok200("r1")
    /\ pc["r2"] = "done" /\ err["r2"].kind = "WriteConflict"
    /\ \E i \in ItemIds :
          /\ QtyFor(Cart("r1"), i) >= 1 /\ QtyFor(Cart("r2"), i) >= 1
          /\ QtyFor(Cart("r1"), i) + QtyFor(Cart("r2"), i) > inventory0[i].stock

\* ---------------------------------------------------------------- C4
\* C4: in every reachable state, whatever purchases and inventory edits
\* (POST, PUT, DELETE) were made, every persisted inventory item has stock >= 0.
C4_StockNonNegative ==
    \A i \in ItemIds : inventory[i].exists => inventory[i].stock >= 0

\* a purchase has committed and an inventory request has since been served,
\* leaving an item with no stock
C4_Witness ==
    /\ adminOps >= 1
    /\ \E r \in Reqs : Ok200(r)
    /\ \E i \in ItemIds : inventory[i].exists /\ inventory[i].stock = 0

\* ---------------------------------------------------------------- C5
MissingOrEmpty(v) == v = Undefined \/ v = ""

\* the cart is missing or empty, or one of the three details is
InvalidRequest(b) ==
    \/ ~b.hasCart
    \/ b.cartItems = <<>>
    \/ MissingOrEmpty(b.deliveryDate)
    \/ MissingOrEmpty(b.customerName)
    \/ MissingOrEmpty(b.customerEmail)

\* C5: a request whose cart is missing or empty, or whose deliveryDate,
\* customerName or customerEmail is missing or empty, is answered 400 with a
\* message at once: no session is started, no transaction opened, no item
\* read or written, and the step leaves inventory and dispatch records alone.
C5_ValidationPrecheck ==
    /\ [](\A r \in Reqs : (pc[r] # "idle" /\ InvalidRequest(body[r])) =>
             /\ Answered(r, 400)
             /\ responses[r][1].cause.kind \in {"EmptyCart", "MissingDetails"}
             /\ session[r] = "none" /\ txn[r] = "NO_TRANSACTION"
             /\ reads[r] = <<>> /\ ~hasSnap[r] /\ txWrites[r] = NoWrites)
    /\ [][\A r \in Reqs :
             (pc[r] = "idle" /\ pc'[r] # "idle" /\ InvalidRequest(body'[r])) => UNCHANGED store]_vars

\* a request with a cart line and an empty customerName has been answered 400
C5_Witness ==
    /\ Answered("r1", 400)
    /\ Len(Cart("r1")) = 1
    /\ body["r1"].customerName = ""

\* ---------------------------------------------------------------- C6
\* line k of the cart fails against the inventory sn the transaction sees,
\* when the lines before it have been deducted
FailsAt(cart, sn, k) ==
    LET l == cart[k]
    IN  \/ l._id \notin ItemIds
        \/ ~sn[l._id].exists
        \/ sn[l._id].stock - QtyPrefix(cart, l._id, k - 1) < l.quantity

FirstFailing(cart, sn) ==
    IF \E k \in 1 .. Len(cart) : FailsAt(cart, sn, k)
    THEN CHOOSE k \in 1 .. Len(cart) :
            FailsAt(cart, sn, k) /\ \A j \in 1 .. (k - 1) : ~FailsAt(cart, sn, j)
    ELSE 0

\* what the error of the failing line k has to say
ExpectedError(cart, sn, k) ==
    LET l == cart[k]
    IN  IF l._id \notin ItemIds \/ ~sn[l._id].exists
        THEN [kind |-> "NotFound", id |-> l._id, name |-> "", stock |-> 0, quantity |-> 0]
        ELSE [kind |-> "InsufficientStock", id |-> "", name |-> sn[l._id].name,
              stock |-> sn[l._id].stock - QtyPrefix(cart, l._id, k - 1),
              quantity |-> l.quantity]

\* C6: the lines are processed in cart order and processing stops at the
\* first line that fails: the loop never stands beyond a failing line, at the
\* failure exactly the lines up to the failing one have been looked up and
\* only the lines before it deducted, the error caught is that line's (the
\* missing id, or the item's name, its stock then and the quantity asked), and
\* that error is the single one reported, with 500.
C6_FailFastInOrder ==
    /\ \A r \in Reqs : hasSnap[r] =>
          LET cart == Cart(r)
              k == FirstFailing(cart, snap[r])
          IN  /\ pc[r] = "find" => (k = 0 \/ k >= idx[r])
              /\ pc[r] = "save" => (k = 0 \/ k > idx[r])
              /\ pc[r] \in {"saveDispatch", "commit"} => k = 0
              /\ (pc[r] = "abort" /\ LineFailure(err[r])) =>
                    /\ k = idx[r]
                    /\ err[r] = ExpectedError(cart, snap[r], k)
                    /\ reads[r] = [j \in 1 .. k |-> cart[j]._id]
                    /\ Len(dispatchItems[r]) = k - 1
                    /\ \A i \in ItemIds :
                          txWrites[r][i] # -1 => \E j \in 1 .. (k - 1) : cart[j]._id = i
              /\ (pc[r] = "abort" /\ k = idx[r] /\ err[r].kind \notin {"StoreError", "WriteConflict"})
                    => LineFailure(err[r])
    /\ \A r \in Reqs : (pc[r] = "done" /\ LineFailure(err[r])) =>
          /\ responses[r] = <<[status |-> 500, cause |-> err[r]]>>
          /\ Len(reads[r]) = idx[r]
          /\ Len(dispatchItems[r]) = idx[r] - 1

\* a two-line cart failed at its first line, for lack of stock, and was
\* answered: its second line was never looked up
C6_Witness ==
    /\ pc["r1"] = "done"
    /\ err["r1"].kind = "InsufficientStock"
    /\ Len(Cart("r1")) = 2 /\ idx["r1"] = 1
    /\ reads["r1"] = <<Cart("r1")[1]._id>>


\* ---------------------------------------------------------------- C7
\* C7: every request that failed after the precheck (item not found,
\* insufficient stock, or a store error at session start, at a save or at the
\* commit) ends with exactly one response, 500 with the cause, with its session
\* released and, where a session was opened, its transaction aborted.
C7_UniformFailureHandling ==
    \A r \in Reqs : (pc[r] \in {"done", "rejected"} /\ err[r] # NoErr) =>
        /\ responses[r] = <<[status |-> 500, cause |-> err[r]]>>
        /\ session[r] \in {"none", "ended"}
        /\ session[r] = "ended" => txn[r] = "TRANSACTION_ABORTED"

\* ---------------------------------------------------------------- C8
\* C8: the record a purchase commits carries, line by line, the quantity and
\* the unit price submitted in the cart (whatever the item's catalog price)
\* and the item's name as the transaction read it; and no later step, an
\* inventory edit or deletion included, changes a dispatch record once it is
\* in the collection.
C8_PriceSnapshot ==
    /\ [][\A r \in Reqs : Commits(r) =>
             LET cart == Cart(r)
                 rec == dispatches'[Len(dispatches')]
             IN  \A k \in 1 .. Len(cart) :
                    /\ rec.items[k].quantity = cart[k].quantity
                    /\ rec.items[k].priceAtPurchase = cart[k].price
                    /\ rec.items[k].name = snap[r][cart[k]._id].name]_vars
    /\ [][\A k \in 1 .. Len(dispatches) :
             Len(dispatches') >= k /\ dispatches'[k] = dispatches[k]]_vars

\* a record holds an entry whose price differs from the item's catalog price
\* at the purchase, and the item has since been renamed and repriced
C8_Witness ==
    /\ adminOps >= 1
    /\ \E n \in 1 .. Len(dispatches) : \E k \in 1 .. Len(dispatches[n].items) :
          LET e == dispatches[n].items[k]
          IN  /\ e.priceAtPurchase # inventory0[e.itemId].price
              /\ e.name = inventory0[e.itemId].name
              /\ inventory[e.itemId].exists
              /\ inventory[e.itemId].name # e.name
              /\ inventory[e.itemId].price # inventory0[e.itemId].price

\* ---------------------------------------------------------------- C9
\* the item a cart line refers to, under either key
LineRef(l) == IF l._id # Undefined THEN l._id ELSE l.itemId

\* the cart of the spec's scenario
ScenarioCart ==
    << [_id |-> Undefined, itemId |-> "A", quantity |-> 2, price |-> 100],
       [_id |-> Undefined, itemId |-> "B", quantity |-> 1, price |-> 50] >>

\* C9: a cart line may name its item under the key itemId or under the key
\* _id, and the item looked up is the one with that id; so the cart
\* [{itemId: A, quantity: 2, price: 100}, {itemId: B, quantity: 1, price: 50}]
\* with A.stock = 5 and B.stock = 3 succeeds, leaving A.stock = 3, B.stock = 2
\* and one dispatch record with totalAmount 250.
C9_EitherKey ==
    /\ \A r \in Reqs : \A k \in 1 .. Len(reads[r]) : reads[r][k] = LineRef(Cart(r)[k])
    /\ (Solo("r1") /\ faults = 0 /\ pc["r1"] = "done" /\ Cart("r1") = ScenarioCart
        /\ inventory0["A"].stock = 5 /\ inventory0["B"].stock = 3) =>
          /\ Ok200("r1")
          /\ inventory["A"].stock = 3 /\ inventory["B"].stock = 2
          /\ Len(dispatches) = 1 /\ dispatches[1].totalAmount = 250

\* ---------------------------------------------------------------- C10
\* every line of the cart names an item of the starting inventory, asks for at
\* least one, and the stock at start covers the cart twice over
CoveredTwice(cart) ==
    /\ \A k \in 1 .. Len(cart) :
          cart[k]._id \in ItemIds /\ inventory0[cart[k]._id].exists /\ cart[k].quantity >= 1
    /\ \A i \in ItemIds : 2 * QtyFor(cart, i) <= inventory0[i].stock

\* C10: when the same valid request has been served twice (the two runs not
\* overlapping on an item, no store fault, no inventory edit) and the stock at
\* start covered both, both were answered 200, every item's stock has dropped
\* by twice the quantity requested, and the collection holds two dispatch
\* records, equal in content and distinct in identity.
C10_NoDeduplication ==
    \A r \in Reqs : \A q \in Reqs \ {r} :
        ( /\ pc[r] = "done" /\ pc[q] = "done"
          /\ body[r] = body[q]
          /\ ~InvalidRequest(body[r])
          /\ CoveredTwice(Cart(r))
          /\ adminOps = 0 /\ faults = 0
          /\ err[r].kind # "WriteConflict" /\ err[q].kind # "WriteConflict" ) =>
        /\ Ok200(r) /\ Ok200(q)
        /\ \A i \in ItemIds : inventory[i].stock = inventory0[i].stock - 2 * QtyFor(Cart(r), i)
        /\ Len(dispatches) = 2
        /\ dispatches[1]._id # dispatches[2]._id
        /\ dispatches[1].items = dispatches[2].items
        /\ dispatches[1].totalAmount = dispatches[2].totalAmount

\* the same one-line purchase was submitted twice and both runs committed
C10_Witness ==
    /\ body["r1"] = body["r2"]
    /\ Ok200("r1") /\ Ok200("r2")
    /\ adminOps = 0 /\ faults = 0
    /\ Len(dispatches) = 2

\* ---------------------------------------------------------------- C11
\* some line of the cart asks for zero or fewer
HasNonPositive(cart) == \E k \in 1 .. Len(cart) : cart[k].quantity <= 0

\* C11: a purchase whose cart holds a line with a quantity of zero or below
\* never commits: once all its lines have passed the stock check and been
\* saved in the transaction, the save of the dispatch record is rejected and
\* the request ends aborted with one 500 response; and no step of a purchase
\* request raises the committed stock of an item.
C11_NonPositiveNeverCommits ==
    /\ [][\A r \in Reqs : Commits(r) => ~HasNonPositive(Cart(r))]_vars
    /\ [][\A r \in Reqs :
             (pc[r] = "saveDispatch" /\ HasNonPositive(Cart(r)) /\ pc'[r] # pc[r]) =>
                /\ pc'[r] = "abort"
                /\ err'[r].kind \in {"ValidationError", "StoreError"}]_vars
    /\ [](\A r \in Reqs :
             (pc[r] = "done" /\ body[r] # NoBody /\ ~InvalidRequest(body[r])
              /\ HasNonPositive(Cart(r))) =>
                /\ Answered(r, 500)
                /\ session[r] = "ended" => txn[r] = "TRANSACTION_ABORTED")
    /\ [][(\E r \in Reqs : pc'[r] # pc[r]) =>
             \A i \in ItemIds :
                /\ inventory'[i].exists = inventory[i].exists
                /\ inventory'[i].stock <= inventory[i].stock]_vars

\* a cart with a negative quantity went through its lines, the item saved in
\* the transaction with a stock above the committed one, and the save of the
\* dispatch record was rejected by the schema
C11_Witness ==
    /\ pc["r1"] = "abort"
    /\ HasNonPositive(Cart("r1"))
    /\ idx["r1"] = Len(Cart("r1")) /\ Len(dispatchItems["r1"]) = Len(Cart("r1"))
    /\ err["r1"].kind = "ValidationError"
    /\ \E i \in ItemIds : txWrites["r1"][i] > inventory[i].stock

\* ---------------------------------------------------------------- C12
\* two lines of the cart name the same item
Repeats(cart) ==
    \E j, k \in 1 .. Len(cart) : j < k /\ cart[j]._id = cart[k]._id /\ cart[j]._id # Undefined

\* every line names an item of the starting inventory and asks for at least one
Orderable(cart) ==
    \A k \in 1 .. Len(cart) :
       cart[k]._id \in ItemIds /\ inventory0[cart[k]._id].exists /\ cart[k].quantity >= 1

\* C12: each line of a cart is checked against the stock its transaction read
\* less what the earlier lines of the cart took of the same item; a purchase
\* commits only when, for every item, the quantities of its lines add up to at
\* most the stock before the commit, and the commit takes exactly that sum off
\* the stock; a cart of items on sale whose lines add up to more than the
\* stock of an item is answered 500 and leaves inventory and dispatch records
\* as they were.
C12_RepeatedItem ==
    /\ [](\A r \in Reqs :
             /\ pc[r] = "save" =>
                  LET id == Cart(r)[idx[r]]._id
                  IN  inventoryItem[r].stock =
                         snap[r][id].stock - QtyPrefix(Cart(r), id, idx[r])
             /\ (pc[r] = "abort" /\ err[r].kind = "InsufficientStock") =>
                  LET id == Cart(r)[idx[r]]._id
                  IN  /\ err[r].stock = snap[r][id].stock - QtyPrefix(Cart(r), id, idx[r] - 1)
                      /\ err[r].stock < Cart(r)[idx[r]].quantity)
    /\ [][\A r \in Reqs : Commits(r) =>
             \A i \in ItemIds :
                /\ QtyFor(Cart(r), i) <= inventory[i].stock
                /\ QtyFor(Cart(r), i) # 0 =>
                      inventory'[i].stock = inventory[i].stock - QtyFor(Cart(r), i)]_vars
    /\ [](\A r \in Reqs :
             ( /\ pc[r] = "done" /\ Solo(r) /\ faults = 0
               /\ ~InvalidRequest(body[r]) /\ Orderable(Cart(r))
               /\ \E i \in ItemIds : QtyFor(Cart(r), i) > inventory0[i].stock ) =>
                /\ Answered(r, 500) /\ err[r].kind = "InsufficientStock"
                /\ inventory = inventory0 /\ dispatches = <<>>)

\* a cart with two lines for one item, each within the stock on its own and
\* the two together above it, was refused at its second line and rolled back
C12_Witness ==
    /\ Answered("r1", 500) /\ err["r1"].kind = "InsufficientStock"
    /\ Solo("r1")
    /\ Len(Cart("r1")) = 2 /\ idx["r1"] = 2 /\ Repeats(Cart("r1"))
    /\ \A k \in 1 .. 2 : Cart("r1")[k].quantity <= inventory0[Cart("r1")[k]._id].stock
    /\ err["r1"].stock = inventory0[Cart("r1")[2]._id].stock - Cart("r1")[1].quantity
    /\ inventory = inventory0 /\ dispatches = <<>>

====
